---- MODULE Spec2Model ----
(***************************************************************************)
(* Model of the performance-counter query engine (package pdh,             *)
(* WinPerfCounters) and of the perfdata collector that calls it.           *)
(*                                                                         *)
(* Strings are sequences of one-character strings, so that formatPath and  *)
(* extractCounterInfoFromCounterPath are computed character by character.  *)
(***************************************************************************)
EXTENDS Integers, Sequences, FiniteSets, TLC

(***************************************************************************)
(* Bounds of the model.                                                    *)
(***************************************************************************)
\* Gather calls made in one behaviour.
MaxCalls == 3
\* Native failures injected in one behaviour (failed Open, Close,
\* registration, expansion, sample and value-read calls together).
MaxFaults == 1

(***************************************************************************)
(* Characters and names.                                                   *)
(***************************************************************************)
BS == "\\"
LP == "("
RP == ")"

localhost == <<"l", "o", "c", "a", "l", "h", "o", "s", "t">>
emptyInstance == <<"-", "-", "-", "-", "-", "-">>
Star == <<"*">>
TotalName == <<"_", "T", "o", "t", "a", "l">>
HashChar == "#"

\* strings.Contains(s, sub)
Contains(s, sub) ==
    \E i \in 0..(Len(s) - Len(sub)) : SubSeq(s, i + 1, i + Len(sub)) = sub

\* strings.HasPrefix(s, prefix)
HasPrefix(s, prefix) ==
    /\ Len(prefix) <= Len(s)
    /\ SubSeq(s, 1, Len(prefix)) = prefix

\* Go slice expression s[a:b] on 0-based indices.
Slice(s, a, b) == SubSeq(s, a + 1, b)

(***************************************************************************)
(* formatPath                                                              *)
(***************************************************************************)
\* The path without its host prefix, the instance always in parentheses.
LocalPathWithInstance(objectName, instance, counter) ==
    <<BS>> \o objectName \o <<LP>> \o instance \o <<RP, BS>> \o counter

\* The path without its host prefix.
LocalPath(objectName, instance, counter) ==
    IF instance = emptyInstance
    THEN <<BS>> \o objectName \o <<BS>> \o counter
    ELSE <<BS>> \o objectName \o <<LP>> \o instance \o <<RP, BS>> \o counter

\* A path that always carries the host prefix.
formatPathWithHost(computer, objectName, instance, counter) ==
    <<BS, BS>> \o computer \o LocalPath(objectName, instance, counter)

formatPath(computer, objectName, instance, counter) ==
    IF computer # <<>> /\ computer # localhost
    THEN <<BS, BS>> \o computer \o LocalPath(objectName, instance, counter)
    ELSE LocalPath(objectName, instance, counter)

(***************************************************************************)
(* extractCounterInfoFromCounterPath: the right-to-left scan keeps the     *)
(* source's 0-based indices, -1 meaning "not found".                       *)
(***************************************************************************)
ScanInit ==
    [leftComputerBorderIndex |-> -1, rightObjectBorderIndex |-> -1,
     leftObjectBorderIndex |-> -1, leftCounterBorderIndex |-> -1,
     rightInstanceBorderIndex |-> -1, leftInstanceBorderIndex |-> -1,
     bracketLevel |-> 0]

ScanStep(st, i, ch) ==
    CASE ch = BS ->
            IF st.bracketLevel = 0
            THEN IF st.leftCounterBorderIndex = -1
                 THEN [st EXCEPT !.leftCounterBorderIndex = i]
                 ELSE IF st.leftObjectBorderIndex = -1
                      THEN [st EXCEPT !.leftObjectBorderIndex = i]
                      ELSE IF st.leftComputerBorderIndex = -1
                           THEN [st EXCEPT !.leftComputerBorderIndex = i]
                           ELSE st
            ELSE st
      [] ch = LP ->
            IF /\ st.leftInstanceBorderIndex = -1
               /\ st.bracketLevel - 1 = 0
               /\ st.leftObjectBorderIndex = -1
               /\ st.leftCounterBorderIndex > -1
            THEN [st EXCEPT !.bracketLevel = st.bracketLevel - 1,
                            !.leftInstanceBorderIndex = i,
                            !.rightObjectBorderIndex = i]
            ELSE [st EXCEPT !.bracketLevel = st.bracketLevel - 1]
      [] ch = RP ->
            IF /\ st.rightInstanceBorderIndex = -1
               /\ st.bracketLevel = 0
               /\ st.leftCounterBorderIndex > -1
            THEN [st EXCEPT !.rightInstanceBorderIndex = i,
                            !.bracketLevel = st.bracketLevel + 1]
            ELSE [st EXCEPT !.bracketLevel = st.bracketLevel + 1]
      [] OTHER -> st

RECURSIVE Scan(_, _, _)
Scan(counterPath, i, st) ==
    IF i < 0 THEN st
    ELSE IF st.bracketLevel = st.bracketLevel   \* the state is computed at every step
    THEN Scan(counterPath, i - 1, ScanStep(st, i, counterPath[i + 1]))
    ELSE st

PathError == [err |-> TRUE, computer |-> <<>>, object |-> <<>>,
              instance |-> <<>>, counter |-> <<>>]

\* The scan's result once the object's right border defaults to the
\* counter's left border.
DefaultRightObject(s0) ==
    IF s0.rightObjectBorderIndex = -1
    THEN [s0 EXCEPT !.rightObjectBorderIndex = s0.leftCounterBorderIndex]
    ELSE s0

\* The checks and slices without the validation of the host prefix.
ExtractFieldsAnyHost(counterPath, st) ==
    IF st.rightObjectBorderIndex = -1 \/ st.leftObjectBorderIndex = -1
    THEN PathError
    ELSE IF \/ st.leftInstanceBorderIndex = -1 /\ st.rightInstanceBorderIndex > -1
            \/ st.leftInstanceBorderIndex > -1 /\ st.rightInstanceBorderIndex = -1
    THEN PathError
    ELSE [err |-> FALSE,
          computer |-> IF st.leftComputerBorderIndex > -1
                       THEN Slice(counterPath, st.leftComputerBorderIndex + 1,
                                  st.leftObjectBorderIndex)
                       ELSE <<>>,
          object |-> Slice(counterPath, st.leftObjectBorderIndex + 1,
                           st.rightObjectBorderIndex),
          instance |-> IF st.leftInstanceBorderIndex > -1 /\ st.rightInstanceBorderIndex > -1
                       THEN Slice(counterPath, st.leftInstanceBorderIndex + 1,
                                  st.rightInstanceBorderIndex)
                       ELSE <<>>,
          counter |-> Slice(counterPath, st.leftCounterBorderIndex + 1,
                            Len(counterPath))]

\* The checks and slices that follow the scan, st being its result.
ExtractFields(counterPath, st) ==
    IF st.rightObjectBorderIndex = -1 \/ st.leftObjectBorderIndex = -1
    THEN PathError
    ELSE IF /\ st.leftComputerBorderIndex > -1
            /\ \/ st.leftComputerBorderIndex # 1
               \/ st.leftComputerBorderIndex = st.leftObjectBorderIndex - 1
    THEN PathError
    ELSE IF \/ st.leftInstanceBorderIndex = -1 /\ st.rightInstanceBorderIndex > -1
            \/ st.leftInstanceBorderIndex > -1 /\ st.rightInstanceBorderIndex = -1
    THEN PathError
    ELSE [err |-> FALSE,
          computer |-> IF st.leftComputerBorderIndex > -1
                       THEN Slice(counterPath, st.leftComputerBorderIndex + 1,
                                  st.leftObjectBorderIndex)
                       ELSE <<>>,
          object |-> Slice(counterPath, st.leftObjectBorderIndex + 1,
                           st.rightObjectBorderIndex),
          instance |-> IF st.leftInstanceBorderIndex > -1 /\ st.rightInstanceBorderIndex > -1
                       THEN Slice(counterPath, st.leftInstanceBorderIndex + 1,
                                  st.rightInstanceBorderIndex)
                       ELSE <<>>,
          counter |-> Slice(counterPath, st.leftCounterBorderIndex + 1,
                            Len(counterPath))]

extractCounterInfoFromCounterPath(counterPath) ==
    ExtractFields(counterPath,
                  DefaultRightObject(Scan(counterPath, Len(counterPath) - 1, ScanInit)))

(***************************************************************************)
(* Errors.  A PdhError wraps a native code; a plain error wraps none.      *)
(***************************************************************************)
Nil == [kind |-> "nil", code |-> ""]
PdhError(code) == [kind |-> "pdh", code |-> code]
PlainError(msg) == [kind |-> "plain", code |-> msg]

\* The native codes the model injects, by their Go constant names.
BenignCodes == {"PdhInvalidData", "PdhCalcNegativeDenominator",
                "PdhCalcNegativeValue", "PdhCstatusInvalidData", "PdhNoData"}
PdhCodes == BenignCodes \cup {"PdhCstatusNoObject"}

\* Table from native code to symbolic name.
PDHErrors ==
    [c \in PdhCodes |->
        CASE c = "PdhInvalidData" -> "PDH_INVALID_DATA"
          [] c = "PdhCalcNegativeDenominator" -> "PDH_CALC_NEGATIVE_DENOMINATOR"
          [] c = "PdhCalcNegativeValue" -> "PDH_CALC_NEGATIVE_VALUE"
          [] c = "PdhCstatusInvalidData" -> "PDH_CSTATUS_INVALID_DATA"
          [] c = "PdhNoData" -> "PDH_NO_DATA"
          [] OTHER -> "PDH_CSTATUS_NO_OBJECT"]

UninitializedQuery == PlainError("uninitialized query")

\* A test that knows only the first of the codes.
isKnownInvalidDataOnly(err) == err.kind = "pdh" /\ err.code = "PdhInvalidData"

isKnownCounterDataError(err) ==
    /\ err.kind = "pdh"
    /\ \/ err.code = "PdhInvalidData"
       \/ err.code = "PdhCalcNegativeDenominator"
       \/ err.code = "PdhCalcNegativeValue"
       \/ err.code = "PdhCstatusInvalidData"
       \/ err.code = "PdhNoData"

\* A checkError that ignores nothing.
checkErrorIgnoresNothing(ignored, err) == err

\* checkError with m.IgnoredErrors = ignored (a sequence of symbolic names).
checkError(ignored, err) ==
    IF err.kind = "pdh"
    THEN IF \E i \in 1..Len(ignored) : PDHErrors[err.code] = ignored[i]
         THEN Nil
         ELSE err
    ELSE err

(***************************************************************************)
(* Maps (Go maps as functions) and the Accumulator.                        *)
(***************************************************************************)
EmptyMap == <<>>
Put(f, k, v) == [x \in (DOMAIN f) \cup {k} |-> IF x = k THEN v ELSE f[x]]

(***************************************************************************)
(* The native performance query of one host.  A query is a record          *)
(*   opened, closed : whether Open succeeded / Close succeeded             *)
(*   paths          : the counter paths registered, a handle is an index   *)
(*   samples        : the number of samples captured                       *)
(*   openCalls      : Open calls made on it                                *)
(*   closeCalls     : Close calls made on it                               *)
(*   badUse         : an operation was made while it was not open          *)
(* A fault is Nil (the call succeeds) or the error the call fails with.    *)
(***************************************************************************)
NewPerformanceQuery ==
    [opened |-> FALSE, closed |-> FALSE, paths |-> <<>>, samples |-> 0,
     openCalls |-> 0, closeCalls |-> 0, badUse |-> FALSE]

IsOpen(q) == q.opened /\ ~q.closed

QueryOpen(q, fault) ==
    IF fault # Nil THEN [q |-> [q EXCEPT !.openCalls = q.openCalls + 1], err |-> fault]
    ELSE [q |-> [q EXCEPT !.openCalls = q.openCalls + 1, !.opened = TRUE], err |-> Nil]

QueryAddCounter(q, path, fault) ==
    IF ~IsOpen(q)
    THEN [q |-> [q EXCEPT !.badUse = TRUE], handle |-> 0, err |-> UninitializedQuery]
    ELSE IF fault # Nil
    THEN [q |-> q, handle |-> 0, err |-> fault]
    ELSE [q |-> [q EXCEPT !.paths = Append(q.paths, path)],
          handle |-> Len(q.paths) + 1, err |-> Nil]

QueryGetCounterPath(q, handle, fault) ==
    IF ~IsOpen(q) THEN [path |-> <<>>, err |-> UninitializedQuery]
    ELSE IF fault # Nil THEN [path |-> <<>>, err |-> fault]
    ELSE [path |-> q.paths[handle], err |-> Nil]

\* The name of the machine the native layer runs on.
MachineName == <<"P", "C">>

\* The host part the native layer gives the paths it returns.
NativeHost(env, computer) ==
    IF computer # <<>> THEN <<BS, BS>> \o computer
    ELSE IF env.hostPrefix THEN <<BS, BS>> \o MachineName
    ELSE <<>>

\* The path the native layer gives a concrete counter.
NativePath(env, computer, object, instance, counter) ==
    IF instance = <<>>
    THEN NativeHost(env, computer) \o <<BS>> \o object \o <<BS>> \o counter
    ELSE NativeHost(env, computer) \o <<BS>> \o object \o <<LP>> \o instance
             \o <<RP, BS>> \o counter

\* The concrete paths of a registered path whose parse is t: one per
\* instance of the object for the pattern *, else the path itself.
ExpandParsed(env, t) ==
    IF t.err THEN [paths |-> <<>>, err |-> PdhError("PdhCstatusNoObject")]
    ELSE IF t.instance = Star
    THEN [paths |-> [i \in 1..Len(env.instances) |->
                        NativePath(env, t.computer, t.object, env.instances[i], t.counter)],
          err |-> Nil]
    ELSE [paths |-> <<NativePath(env, t.computer, t.object, t.instance, t.counter)>>,
          err |-> Nil]

QueryExpandWildCardPath(env, q, path, fault) ==
    IF ~IsOpen(q) THEN [paths |-> <<>>, err |-> UninitializedQuery]
    ELSE IF fault # Nil THEN [paths |-> <<>>, err |-> fault]
    ELSE ExpandParsed(env, extractCounterInfoFromCounterPath(path))

QueryCollectData(q, fault) ==
    IF ~IsOpen(q) THEN [q |-> [q EXCEPT !.badUse = TRUE], err |-> UninitializedQuery]
    ELSE IF fault # Nil THEN [q |-> q, err |-> fault]
    ELSE [q |-> [q EXCEPT !.samples = q.samples + 1], err |-> Nil]

\* The value a handle has after the latest sample.
QueryGetCounterValue(q, handle, fault) ==
    IF ~IsOpen(q) THEN [value |-> 0, err |-> UninitializedQuery]
    ELSE IF fault # Nil THEN [value |-> 0, err |-> fault]
    ELSE [value |-> q.samples, err |-> Nil]

\* The instance names of the array read of a path whose parse is t: every
\* instance of the object for the pattern *, else the one instance the
\* path names, cut to its first two characters when the native layer
\* truncates identifiers that carry a '#'.
ArrayNames(env, t) ==
    IF t.err THEN <<>>
    ELSE IF t.instance = Star THEN env.instances
    ELSE IF t.instance = <<>> THEN <<env.singleName>>
    ELSE IF env.truncates /\ Contains(t.instance, <<HashChar>>)
    THEN <<SubSeq(t.instance, 1, 2)>>
    ELSE <<t.instance>>

ArrayValues(names, value) ==
    [i \in 1..Len(names) |-> [InstanceName |-> names[i], Value |-> value]]

QueryGetCounterArray(env, q, handle, fault) ==
    IF ~IsOpen(q) THEN [values |-> <<>>, err |-> UninitializedQuery]
    ELSE IF fault # Nil THEN [values |-> <<>>, err |-> fault]
    ELSE [values |-> ArrayValues(ArrayNames(env,
                         extractCounterInfoFromCounterPath(q.paths[handle])), q.samples),
          err |-> Nil]

QueryClose(q, fault) ==
    IF ~IsOpen(q)
    THEN [q |-> [q EXCEPT !.closeCalls = q.closeCalls + 1], err |-> UninitializedQuery]
    ELSE IF fault # Nil
    THEN [q |-> [q EXCEPT !.closeCalls = q.closeCalls + 1], err |-> fault]
    ELSE [q |-> [q EXCEPT !.closeCalls = q.closeCalls + 1, !.closed = TRUE], err |-> Nil]

(***************************************************************************)
(* The engine: counters, AddItem, ParseConfig, cleanQueries.               *)
(*                                                                         *)
(* hostCounters is a function from the computer names in the map to        *)
(*   [computer, counters, query]; the nil map is the empty function.       *)
(* m is the engine's configuration:                                        *)
(*   [Object, UseWildcardsExpansion, LocalizeWildcardsExpansion,           *)
(*    IgnoredErrors].                                                      *)
(* The measurement label, the display tag, the timestamp and the log are   *)
(* not modelled.  AddCounterToQuery and AddEnglishCounterToQuery are both  *)
(* QueryAddCounter; CollectData and CollectDataWithTime are both           *)
(* QueryCollectData; the raw and the formatted value reads are both        *)
(* QueryGetCounterValue / QueryGetCounterArray.                            *)
(***************************************************************************)
newCounter(counterHandle, counterPath, computer, objectName, instance, counterName, includeTotal, useRawValue) ==
    [counterPath |-> counterPath, computer |-> computer, objectName |-> objectName,
     counter |-> counterName, instance |-> instance, includeTotal |-> includeTotal,
     useRawValue |-> useRawValue, counterHandle |-> counterHandle]

\* A fault injected into one AddItem call: the native call that fails
\* (stage, and for the calls of the expansion loop the iteration k).
NoFault == [stage |-> "none", k |-> 0]
ParseFaultError == PdhError("PdhCstatusNoObject")
PathParseError == PlainError("cannot parse counter path")
FaultAt(f, stage, k) == IF f.stage = stage /\ f.k = k THEN ParseFaultError ELSE Nil

\* A discard test that keeps every expanded counter.
DiscardNothing(instance, origInstance, includeTotal) == FALSE

\* The discard test of the expansion loop.
DiscardTotal(instance, origInstance, includeTotal) ==
    instance = TotalName /\ origInstance = Star /\ ~includeTotal

\* The path the expansion loop registers for the expanded path counterPath
\* whose parse is t: rebuilt from the original names unless localized.
RegisteredPath(m, t, orig, counterPath) ==
    IF ~m.LocalizeWildcardsExpansion
    THEN formatPath(t.computer, orig.object,
                    IF t.instance = <<>> THEN emptyInstance ELSE t.instance,
                    orig.counter)
    ELSE counterPath

\* The counter the expansion loop makes for it.
ExpandedCounter(m, counterHandle, path2, t, orig, a) ==
    IF ~m.LocalizeWildcardsExpansion
    THEN newCounter(counterHandle, path2, t.computer, orig.object, t.instance,
                    orig.counter, a.includeTotal, a.useRawValue)
    ELSE newCounter(counterHandle, path2, t.computer, t.object, t.instance,
                    t.counter, a.includeTotal, a.useRawValue)

\* The loop over the expanded paths, from path i on; a is the AddItem
\* call's arguments and orig the parse of its original counter path.  One
\* iteration: register the expanded path (r1), parse it (t), register the
\* path of the counter (r2), then discard or append the counter.
RECURSIVE ExpandLoop(_, _, _, _, _, _, _, _)

ExpandRegistered(m, counters, paths, i, a, orig, f, t, path2, r2) ==
    IF r2.err # Nil THEN [q |-> r2.q, counters |-> counters, err |-> r2.err]
    ELSE IF DiscardTotal(t.instance, a.instance, a.includeTotal)
    THEN ExpandLoop(m, r2.q, counters, paths, i + 1, a, orig, f)
    ELSE ExpandLoop(m, r2.q,
                    Append(counters, ExpandedCounter(m, r2.handle, path2, t, orig, a)),
                    paths, i + 1, a, orig, f)

ExpandParsedPath(m, counters, paths, i, a, orig, f, q1, t, path2) ==
    ExpandRegistered(m, counters, paths, i, a, orig, f, t, path2,
                     QueryAddCounter(q1, path2, FaultAt(f, "loopadd2", i)))

ExpandAdded(m, counters, paths, i, a, orig, f, r1, t) ==
    IF r1.err # Nil THEN [q |-> r1.q, counters |-> counters, err |-> r1.err]
    ELSE IF t.err THEN [q |-> r1.q, counters |-> counters, err |-> PathParseError]
    ELSE ExpandParsedPath(m, counters, paths, i, a, orig, f, r1.q, t,
                          RegisteredPath(m, t, orig, paths[i]))

ExpandLoop(m, q, counters, paths, i, a, orig, f) ==
    IF i > Len(paths) THEN [q |-> q, counters |-> counters, err |-> Nil]
    ELSE ExpandAdded(m, counters, paths, i, a, orig, f,
                     QueryAddCounter(q, paths[i], FaultAt(f, "loopadd", i)),
                     extractCounterInfoFromCounterPath(paths[i]))

\* The host's entry of the map, made when the map has none.
HostEntry(hc, computer) ==
    IF computer \notin DOMAIN hc
    THEN [computer |-> computer, counters |-> <<>>, query |-> NewPerformanceQuery]
    ELSE hc[computer]

\* An Open on every path, whether the entry is new or not.
OpenAlways(hc, hi, f) == QueryOpen(hi.query, FaultAt(f, "open", 0))

\* The query is opened when the entry is made.
OpenIfNew(hc, hi, f) ==
    IF hi.computer \notin DOMAIN hc THEN QueryOpen(hi.query, FaultAt(f, "open", 0))
    ELSE [q |-> hi.query, err |-> Nil]

\* The map with the host's entry holding query q and the counters given.
SetHost(hc, hi, q, counters) ==
    Put(hc, hi.computer, [hi EXCEPT !.query = q, !.counters = counters])

\* AddItem, step by step: the host's entry (hi), Open when the entry is
\* new (ro), the registration of the path (ra), and with wildcard
\* expansion the path of the handle (rp), its expansion (rx), the parse of
\* the original path (orig) and the loop over the expanded paths (rl).
AddItemLooped(hc, hi, rl) ==
    [hc |-> SetHost(hc, hi, rl.q, rl.counters), err |-> rl.err]

AddItemExpanded(m, hc, a, f, hi, q, rx, orig) ==
    IF rx.err # Nil THEN [hc |-> SetHost(hc, hi, q, hi.counters), err |-> rx.err]
    ELSE IF orig.err THEN [hc |-> SetHost(hc, hi, q, hi.counters), err |-> PathParseError]
    ELSE AddItemLooped(hc, hi, ExpandLoop(m, q, hi.counters, rx.paths, 1, a, orig, f))

AddItemPath(env, m, hc, a, f, hi, q, rp) ==
    IF rp.err # Nil THEN [hc |-> SetHost(hc, hi, q, hi.counters), err |-> rp.err]
    ELSE AddItemExpanded(m, hc, a, f, hi, q,
                         QueryExpandWildCardPath(env, q, rp.path, FaultAt(f, "expand", 0)),
                         extractCounterInfoFromCounterPath(a.counterPath))

AddItemAdded(env, m, hc, a, f, hi, ra) ==
    IF ra.err # Nil THEN [hc |-> SetHost(hc, hi, ra.q, hi.counters), err |-> ra.err]
    ELSE IF m.UseWildcardsExpansion
    THEN AddItemPath(env, m, hc, a, f, hi, ra.q,
                     QueryGetCounterPath(ra.q, ra.handle, FaultAt(f, "getpath", 0)))
    ELSE [hc |-> SetHost(hc, hi, ra.q,
                         Append(hi.counters,
                                newCounter(ra.handle, a.counterPath, a.computer,
                                           a.objectName, a.instance, a.counterName,
                                           a.includeTotal, a.useRawValue))),
          err |-> Nil]

AddItemOpened(env, m, hc, a, f, hi, ro) ==
    IF ro.err # Nil THEN [hc |-> SetHost(hc, hi, ro.q, hi.counters), err |-> ro.err]
    ELSE AddItemAdded(env, m, hc, a, f, hi,
                      QueryAddCounter(ro.q, a.counterPath, FaultAt(f, "add", 0)))

AddItemOnHost(env, m, hc, a, f, hi) ==
    AddItemOpened(env, m, hc, a, f, hi, OpenIfNew(hc, hi, f))

\* AddItem(counterPath, computer, objectName, instance, counterName, ...)
\* with a = the arguments and f the fault it meets; returns the new host
\* map and the error.
AddItem(env, m, hc, a, f) ==
    AddItemOnHost(env, m, hc, a, f, HostEntry(hc, a.computer))

RECURSIVE SeqConcat(_)
SeqConcat(ss) == IF ss = <<>> THEN <<>> ELSE Head(ss) \o SeqConcat(Tail(ss))

\* The AddItem calls of ParseConfig for one object, in the order of its
\* loops over computers, counters and instances.
ObjectCombos(PerfObject, sources) ==
    LET computers == IF Len(PerfObject.Sources) = 0 THEN sources ELSE PerfObject.Sources
        Computer(ci) == IF computers[ci] = <<>> THEN localhost ELSE computers[ci]
    IN  SeqConcat([ci \in 1..Len(computers) |->
          SeqConcat([ki \in 1..Len(PerfObject.Counters) |->
            [ii \in 1..Len(PerfObject.Instances) |->
               [obj |-> PerfObject, computer |-> Computer(ci),
                counter |-> PerfObject.Counters[ki],
                instance |-> PerfObject.Instances[ii]]]])])

Combos(objects, sources) ==
    SeqConcat([oi \in 1..Len(objects) |-> ObjectCombos(objects[oi], sources)])

\* The arguments ParseConfig gives AddItem for one combination.
AddItemArgs(c) ==
    [counterPath |-> formatPath(c.computer, c.obj.ObjectName, c.instance, c.counter),
     computer |-> c.computer, objectName |-> c.obj.ObjectName,
     instance |-> c.instance, counterName |-> c.counter,
     includeTotal |-> c.obj.IncludeTotal, useRawValue |-> c.obj.UseRawValues]

\* A ParseConfig that never returns the error of a failed AddItem.
AbortsParseNever(PerfObject) == FALSE

\* Whether ParseConfig returns the error of a failed AddItem.
AbortsParse(PerfObject) == PerfObject.FailOnMissing

\* The loop of ParseConfig from combination i on; log is the sequence of the
\* errors the AddItem calls made so far returned, r the result of the
\* AddItem call of combination i.
RECURSIVE ParseLoop(_, _, _, _, _, _, _)

ParseStep(env, m, combos, i, plan, log, r) ==
    IF r.err # Nil /\ AbortsParse(combos[i].obj)
    THEN [hc |-> r.hc, err |-> r.err, log |-> Append(log, r.err)]
    ELSE ParseLoop(env, m, r.hc, combos, i + 1, plan, Append(log, r.err))

ParseLoop(env, m, hc, combos, i, plan, log) ==
    IF i > Len(combos) THEN [hc |-> hc, err |-> Nil, log |-> log]
    ELSE ParseStep(env, m, combos, i, plan, log,
                   AddItem(env, m, hc, AddItemArgs(combos[i]), plan[i]))

DefaultSources(sources) == IF Len(sources) = 0 THEN <<localhost>> ELSE sources

NoObjectsError == PlainError("no performance objects configured")

\* A ParseConfig that does not look at the number of objects.
ParseConfigAnyObjects(env, m, sources, hc, plan) ==
    ParseLoop(env, m, hc, Combos(m.Object, DefaultSources(sources)), 1, plan, <<>>)

\* ParseConfig on host map hc; plan gives each AddItem call its fault.
ParseConfig(env, m, sources, hc, plan) ==
    IF Len(m.Object) <= 0
    THEN [hc |-> hc, err |-> NoObjectsError, log |-> <<>>]
    ELSE ParseLoop(env, m, hc, Combos(m.Object, DefaultSources(sources)), 1, plan, <<>>)

\* cleanQueries, closing the hosts in the order given; faults[i] is the
\* fault of the i-th Close and r its result.
RECURSIVE CloseLoop(_, _, _, _)

CloseStep(hc, order, i, faults, r) ==
    IF r.err # Nil THEN [hc |-> [hc EXCEPT ![order[i]].query = r.q], err |-> r.err]
    ELSE CloseLoop([hc EXCEPT ![order[i]].query = r.q], order, i + 1, faults)

CloseLoop(hc, order, i, faults) ==
    IF i > Len(order) THEN [hc |-> EmptyMap, err |-> Nil]
    ELSE CloseStep(hc, order, i, faults, QueryClose(hc[order[i]].query, faults[i]))

cleanQueries(hc, order, faults) == CloseLoop(hc, order, 1, faults)

(***************************************************************************)
(* Extraction: shouldIncludeMetric and gatherComputerCounters.             *)
(***************************************************************************)
\* An inclusion test that looks at the flag and the name only.
shouldIncludeByFlag(metric, cValue) ==
    metric.includeTotal \/ ~Contains(cValue.InstanceName, TotalName)

shouldIncludeMetric(metric, cValue) ==
    IF metric.includeTotal THEN TRUE
    ELSE IF metric.instance = Star /\ ~Contains(cValue.InstanceName, TotalName) THEN TRUE
    ELSE IF metric.instance = cValue.InstanceName THEN TRUE
    ELSE IF metric.instance = emptyInstance THEN TRUE
    ELSE FALSE

\* An array entry's name left as the native layer gave it.
CorrectedNameAsReturned(metric, cValue) == cValue.InstanceName

\* The name an array entry is stored under: the requested identifier when
\* it carries a '#' and the native name is a prefix of it.
CorrectedName(metric, cValue) ==
    IF Contains(metric.instance, <<HashChar>>) /\ HasPrefix(metric.instance, cValue.InstanceName)
    THEN metric.instance
    ELSE cValue.InstanceName

\* The test that decides whether the array branch makes a fresh inner map
\* for the counter: the source looks the counter name up in the outer map.
CounterMapMissing(acc, metric) == metric.counter \notin DOMAIN acc

WithObject(acc, metric) ==
    IF metric.objectName \notin DOMAIN acc THEN Put(acc, metric.objectName, EmptyMap)
    ELSE acc

\* The map with an inner map for the counter, made when test says it is
\* missing.
WithCounter(acc, metric, missing) ==
    IF missing
    THEN [acc EXCEPT ![metric.objectName] = Put(@, metric.counter, EmptyMap)]
    ELSE acc

\* The write of the expansion branch, inner maps made on first use.
StoreInstance(acc, metric, name, value) ==
    [acc EXCEPT ![metric.objectName][metric.counter] = Put(@, name, value)]

StoreInObject(acc, metric, value) ==
    StoreInstance(WithCounter(acc, metric, metric.counter \notin DOMAIN acc[metric.objectName]),
                  metric, metric.instance, value)

\* A write that makes a fresh inner map for the counter every time.
StoreValueInFreshMap(acc, metric, value) ==
    StoreInstance(WithCounter(WithObject(acc, metric), metric, TRUE),
                  metric, metric.instance, value)

StoreValue(acc, metric, value) == StoreInObject(WithObject(acc, metric), metric, value)

\* The loop over the entries of one array read, from entry j on.  One
\* iteration: correct the name (cValue), make the inner maps (a1, a2), write
\* if the entry is included.  panic: a write into an inner map that was
\* never made.
RECURSIVE ArrayLoop(_, _, _, _)

ArrayEntryStore(a2, metric, counterValues, j, cValue) ==
    IF shouldIncludeMetric(metric, cValue)
    THEN IF metric.counter \notin DOMAIN a2[metric.objectName]
         THEN [acc |-> a2, panic |-> TRUE]
         ELSE ArrayLoop(StoreInstance(a2, metric, cValue.InstanceName, cValue.Value),
                        metric, counterValues, j + 1)
    ELSE ArrayLoop(a2, metric, counterValues, j + 1)

ArrayEntryMaps(a1, metric, counterValues, j, cValue) ==
    ArrayEntryStore(WithCounter(a1, metric, CounterMapMissing(a1, metric)),
                    metric, counterValues, j, cValue)

ArrayLoop(acc, metric, counterValues, j) ==
    IF j > Len(counterValues) THEN [acc |-> acc, panic |-> FALSE]
    ELSE ArrayEntryMaps(WithObject(acc, metric), metric, counterValues, j,
                        [counterValues[j] EXCEPT
                            !.InstanceName = CorrectedName(metric, counterValues[j])])

\* The loop of gatherComputerCounters from counter i on; faults[i] is the
\* fault of the value read of counter i, rv / ra the result of the read.
RECURSIVE MetricLoop(_, _, _, _, _, _)

\* Whether a failed value read ends the host's extraction.
AbortsExtraction(err) == ~isKnownCounterDataError(err)

ReadFailed(env, m, hostCounterInfo, i, faults, acc, err) ==
    IF AbortsExtraction(err)
    THEN [acc |-> EmptyMap, err |-> err, panic |-> FALSE]
    ELSE MetricLoop(env, m, hostCounterInfo, i + 1, faults, acc)

ValueRead(env, m, hostCounterInfo, i, faults, acc, rv) ==
    IF rv.err # Nil THEN ReadFailed(env, m, hostCounterInfo, i, faults, acc, rv.err)
    ELSE MetricLoop(env, m, hostCounterInfo, i + 1, faults,
                    StoreValue(acc, hostCounterInfo.counters[i], rv.value))

ArrayStored(env, m, hostCounterInfo, i, faults, al) ==
    IF al.panic THEN [acc |-> al.acc, err |-> Nil, panic |-> TRUE]
    ELSE MetricLoop(env, m, hostCounterInfo, i + 1, faults, al.acc)

ArrayRead(env, m, hostCounterInfo, i, faults, acc, ra) ==
    IF ra.err # Nil THEN ReadFailed(env, m, hostCounterInfo, i, faults, acc, ra.err)
    ELSE ArrayStored(env, m, hostCounterInfo, i, faults,
                     ArrayLoop(acc, hostCounterInfo.counters[i], ra.values, 1))

MetricLoop(env, m, hostCounterInfo, i, faults, acc) ==
    IF i > Len(hostCounterInfo.counters) THEN [acc |-> acc, err |-> Nil, panic |-> FALSE]
    ELSE IF m.UseWildcardsExpansion
    THEN ValueRead(env, m, hostCounterInfo, i, faults, acc,
                   QueryGetCounterValue(hostCounterInfo.query,
                                        hostCounterInfo.counters[i].counterHandle, faults[i]))
    ELSE ArrayRead(env, m, hostCounterInfo, i, faults, acc,
                   QueryGetCounterArray(env, hostCounterInfo.query,
                                        hostCounterInfo.counters[i].counterHandle, faults[i]))

gatherComputerCounters(env, m, hostCounterInfo, faults) ==
    MetricLoop(env, m, hostCounterInfo, 1, faults, EmptyMap)

\* The sample loops of Gather: CollectData on every host in the order
\* given, returning at the first failure; r is the result of the i-th call.
RECURSIVE SampleLoop(_, _, _, _)

SampleStep(hc, order, i, faults, r) ==
    IF r.err # Nil THEN [hc |-> [hc EXCEPT ![order[i]].query = r.q], err |-> r.err]
    ELSE SampleLoop([hc EXCEPT ![order[i]].query = r.q], order, i + 1, faults)

SampleLoop(hc, order, i, faults) ==
    IF i > Len(order) THEN [hc |-> hc, err |-> Nil]
    ELSE SampleStep(hc, order, i, faults, QueryCollectData(hc[order[i]].query, faults[i]))

\* collect of the perfdata collector, given what Gather returned.
MissingPerfData == PlainError("missing perf data")
collect(gathered) ==
    IF gathered.err # Nil THEN gathered.err
    ELSE IF localhost \notin DOMAIN gathered.acc THEN MissingPerfData
    ELSE Nil

(***************************************************************************)
(* Fault plans: the native failures one operation meets.                   *)
(***************************************************************************)
\* The sequences of length n over faults \cup {none} with at most k faults.
RECURSIVE FaultPlans(_, _, _, _)
FaultPlans(n, k, faults, none) ==
    IF n = 0 THEN {<<>>}
    ELSE {Append(p, none) : p \in FaultPlans(n - 1, k, faults, none)}
         \cup (IF k > 0
               THEN {Append(p, f) : p \in FaultPlans(n - 1, k - 1, faults, none), f \in faults}
               ELSE {})

\* The faults a plan holds.
NumFaults(plan, none) == Cardinality({i \in 1..Len(plan) : plan[i] # none})

\* The orders a range over a Go map with key set S can take.
Orders(S) ==
    {o \in [1..Cardinality(S) -> S] : \A i, j \in 1..Cardinality(S) : i # j => o[i] # o[j]}

\* The faults an AddItem call may meet: a failed Open or add-counter, and
\* with wildcard expansion a failed path lookup, expansion, or add-counter
\* of the loop over the expanded paths.
ParseFaults(env, m) ==
    {[stage |-> s, k |-> 0] : s \in {"open", "add"}}
    \cup (IF m.UseWildcardsExpansion
          THEN {[stage |-> s, k |-> 0] : s \in {"getpath", "expand"}}
               \cup {[stage |-> s, k |-> k] :
                        s \in {"loopadd", "loopadd2"}, k \in 1..Len(env.instances)}
          ELSE {})

SampleErrors == {PdhError("PdhNoData"), PdhError("PdhCstatusNoObject")}
CloseErrors == {PdhError("PdhCstatusNoObject")}
ReadErrors == {PdhError(c) : c \in PdhCodes}

(***************************************************************************)
(* Configurations and native environments the behaviours start from.       *)
(***************************************************************************)
ObjO == <<"O">>
ObjP == <<"P">>
CtrC == <<"c">>
CtrD == <<"d">>
Inst0 == <<"0">>
Inst1 == <<"1">>
Inst0Total == <<"0", ",">> \o TotalName
InstW3 == <<"w", "3", "w", "p", "#", "1">>
HostB == <<"h", "2">>
Inst2 == <<"2">>
Inst3 == <<"3">>
ProcessorInformation == <<"P", "r", "o", "c", "e", "s", "s", "o", "r", " ",
                          "I", "n", "f", "o", "r", "m", "a", "t", "i", "o",
                          "n">>
ProcessorUtility == <<"%", " ", "P", "r", "o", "c", "e", "s", "s", "o", "r",
                      " ", "U", "t", "i", "l", "i", "t", "y">>

\* UseRawValues is set on every object by the collector's Build.
PerfObject(name, counters, instances, sources, includeTotal, failOnMissing) ==
    [ObjectName |-> name, Counters |-> counters, Instances |-> instances,
     Sources |-> sources, WarnOnMissing |-> ~failOnMissing,
     FailOnMissing |-> failOnMissing, IncludeTotal |-> includeTotal,
     UseRawValues |-> TRUE]

ObjectLists ==
    {<<>>}
    \cup {<<PerfObject(ObjO, <<CtrC>>, <<Star>>, <<>>, it, fm)>> : it, fm \in BOOLEAN}
    \cup {<<PerfObject(ObjO, <<CtrC>>, <<TotalName, InstW3>>, <<>>, it, fm)>> : it, fm \in BOOLEAN}
    \cup {<<PerfObject(ObjO, <<CtrC, CtrD>>, <<emptyInstance>>, <<>>, FALSE, fm)>> : fm \in BOOLEAN}
    \cup {<<PerfObject(ObjO, <<CtrC>>, <<Star>>, <<>>, FALSE, fm),
            PerfObject(ObjP, <<CtrD>>, <<Inst0>>, <<>>, FALSE, TRUE)>> : fm \in BOOLEAN}
    \cup {<<PerfObject(ObjO, <<CtrC>>, <<Inst0, TotalName>>, <<localhost, HostB>>, FALSE, fm)>> :
            fm \in BOOLEAN}

IgnoredLists == {<<>>, <<"PDH_NO_DATA">>}

Configs ==
    {[Object |-> o, UseWildcardsExpansion |-> x, LocalizeWildcardsExpansion |-> l,
      IgnoredErrors |-> ig] :
        o \in ObjectLists, x \in BOOLEAN, l \in BOOLEAN, ig \in IgnoredLists}

\* The collector sets LocalizeWildcardsExpansion; the engine's other users
\* may clear it.  Without expansion the flag is never read: one value is
\* enough.
ConfigsUsed == {c \in Configs : ~c.UseWildcardsExpansion => c.LocalizeWildcardsExpansion}

\* Two native layers: what the object's instances are, the name an array
\* gives the entry of a path without instance, whether arrays truncate
\* identifiers with a '#', whether expanded paths carry the machine name.
EnvPlain ==
    [instances |-> <<Inst0, TotalName, Inst1>>, singleName |-> <<>>,
     truncates |-> TRUE, hostPrefix |-> FALSE]
EnvTotals ==
    [instances |-> <<Inst0Total, Inst0>>, singleName |-> TotalName,
     truncates |-> FALSE, hostPrefix |-> TRUE]
NativeEnvs == {EnvPlain, EnvTotals}

\* Whether a configuration names more than one computer.
TwoHosts(c) == \E i \in 1..Len(c.Object) : Len(c.Object[i].Sources) > 1

\* A host with four processors: the object Processor Information with the
\* pattern * and includeTotal off, registered with wildcard expansion.
EnvFourCore ==
    [instances |-> <<Inst0, Inst1, Inst2, Inst3, TotalName>>, singleName |-> <<>>,
     truncates |-> TRUE, hostPrefix |-> FALSE]
FourCoreConfigs ==
    {[Object |-> <<PerfObject(ProcessorInformation, <<ProcessorUtility>>, <<Star>>, <<>>,
                              FALSE, FALSE)>>,
      UseWildcardsExpansion |-> TRUE, LocalizeWildcardsExpansion |-> l,
      IgnoredErrors |-> <<>>] : l \in BOOLEAN}
FourCoreSetups == [cfg : FourCoreConfigs, nat : {EnvFourCore}]

\* The pairs of configuration and native layer the behaviours start from.
\* The configuration with two computers uses neither the pattern * nor a
\* path without instance: it runs on one native layer, with localized
\* expansion, nothing ignored and failOnMissing off.
Setups ==
    {s \in [cfg : ConfigsUsed, nat : NativeEnvs] :
        TwoHosts(s.cfg) => /\ s.nat = EnvPlain
                           /\ s.cfg.LocalizeWildcardsExpansion
                           /\ s.cfg.IgnoredErrors = <<>>
                           /\ \A i \in 1..Len(s.cfg.Object) :
                                 ~s.cfg.Object[i].FailOnMissing}
    \cup FourCoreSetups

(***************************************************************************)
(* State.                                                                  *)
(***************************************************************************)
VARIABLES
    cfg,            \* the engine's configuration, set by the collector's Build
    nat,            \* the native environment
    Sources,        \* m.Sources
    lastRefreshed,  \* whether m.lastRefreshed is non-zero
    hostCounters,   \* m.hostCounters
    pc,             \* "idle", "fanout" (extraction tasks running) or "crashed"
    task,           \* the extraction tasks of the latest Gather call, by host
    acc,            \* the result map the tasks of the running call write
    ret,            \* what the latest Gather call returned, NoRet while it runs
    collectErr,     \* what collect returned for it
    calls,          \* Gather calls started
    injected,       \* native failures injected so far
    last,           \* history: the course of the latest Gather call
    prev,           \* history: the outcome of the call before it, and what was
                    \* registered and injected when the latest call began
    codec           \* the input and the results of the string functions
                    \* (formatPath, the path parser, sanitizeMetricName)

vars == <<cfg, nat, Sources, lastRefreshed, hostCounters, pc, task, acc, ret,
          collectErr, calls, injected, last, prev, codec>>

\* The variables of the engine and of the collector.
engine == <<cfg, nat, Sources, lastRefreshed, hostCounters, pc, task, acc, ret,
            collectErr, calls, injected, last, prev>>

NoCall == [ranConfig |-> FALSE, phase |-> "none", rawErr |-> Nil, log |-> <<>>,
           samples |-> EmptyMap, readsOk |-> TRUE, errored |-> {}]
NoRet == [acc |-> EmptyMap, err |-> Nil]

\* The (host, object, counter, instance) keys of a Gather result.
InstanceKeys(result) ==
    UNION {UNION {UNION {{<<h, o, c, i>> : i \in DOMAIN result[h][o][c]} :
                         c \in DOMAIN result[h][o]} :
                  o \in DOMAIN result[h]} :
           h \in DOMAIN result}

\* What is registered with the native layer: per host, whether its query
\* is open, the paths added to it and the Close calls made on it.
Registered(hc) ==
    [h \in DOMAIN hc |->
        [open |-> IsOpen(hc[h].query), paths |-> hc[h].query.paths,
         closeCalls |-> hc[h].query.closeCalls]]

\* Every value read of every task succeeded.
AllReadsOk == \A h \in DOMAIN task : \A i \in 1..Len(task[h].reads) : task[h].reads[i] = Nil

NoPrev == [returned |-> FALSE, clean |-> FALSE, erred |-> FALSE, keys |-> {},
           registered |-> EmptyMap, injected |-> 0]

\* No tuple, and the string functions not in use.
NoTuple == [computer |-> <<>>, objectName |-> <<>>, instance |-> <<>>, counter |-> <<>>]
NoCodec == [stage |-> "off", tuple |-> NoTuple, text |-> <<>>, path |-> <<>>,
            parsed |-> PathError, name |-> <<>>]

Init ==
    /\ codec = NoCodec
    /\ \E s \in Setups : cfg = s.cfg /\ nat = s.nat
    /\ Sources = <<>>
    /\ lastRefreshed = FALSE
    /\ hostCounters = EmptyMap
    /\ pc = "idle"
    /\ task = EmptyMap
    /\ acc = EmptyMap
    /\ ret = NoRet
    /\ collectErr = Nil
    /\ calls = 0
    /\ injected = 0
    /\ last = NoCall
    /\ prev = NoPrev

(***************************************************************************)
(* Gather.  GatherBegin is the sequential part of one call: the            *)
(* configuration block, the sample loop and, unless the call returns       *)
(* there, the start of one extraction task per host.                       *)
(***************************************************************************)
\* The samples each host of hc got in this call.
SamplesTaken(before, hc, ranConfig) ==
    [h \in DOMAIN hc |->
        hc[h].query.samples
          - (IF ranConfig \/ h \notin DOMAIN before THEN 0 ELSE before[h].query.samples)]

\* The call returns from its sequential part: Gather returns an empty map
\* and err, and collect goes on from there.
Return(hc, src, lr, err, rawErr, phase, ranConfig, log, k) ==
    /\ injected' = MaxFaults - k
    /\ hostCounters' = hc
    /\ Sources' = src
    /\ lastRefreshed' = lr
    /\ ret' = [acc |-> EmptyMap, err |-> err]
    /\ collectErr' = collect([acc |-> EmptyMap, err |-> err])
    /\ pc' = "idle"
    /\ task' = EmptyMap
    /\ acc' = EmptyMap
    /\ last' = [ranConfig |-> ranConfig, phase |-> phase, rawErr |-> rawErr,
                log |-> log, samples |-> SamplesTaken(hostCounters, hc, ranConfig),
                readsOk |-> TRUE, errored |-> {}]

\* The call starts its extraction tasks.
FanOut(hc, src, ranConfig, log, k) ==
    /\ injected' = MaxFaults - k
    /\ hostCounters' = hc
    /\ Sources' = src
    /\ lastRefreshed' = TRUE
    /\ pc' = "fanout"
    /\ task' = [h \in DOMAIN hc |->
                  [st |-> "run", res |-> EmptyMap, err |-> Nil, raced |-> FALSE,
                   reads |-> <<>>]]
    /\ acc' = EmptyMap
    /\ ret' = NoRet
    /\ collectErr' = Nil
    /\ last' = [ranConfig |-> ranConfig, phase |-> "extract", rawErr |-> Nil,
                log |-> log, samples |-> SamplesTaken(hostCounters, hc, ranConfig),
                readsOk |-> TRUE, errored |-> {}]

\* A sample loop whose failure does not end the call.
SampleDoneIgnoringFailure(rs, src, ranConfig, log, k) ==
    FanOut(rs.hc, src, ranConfig, log, k)

\* The sample loop of every call is over with result rs; k is the number
\* of faults the call may still meet.
SampleDone(rs, src, ranConfig, log, k) ==
    IF rs.err # Nil
    THEN Return(rs.hc, src, TRUE, checkError(cfg.IgnoredErrors, rs.err), rs.err,
                "sample", ranConfig, log, k)
    ELSE FanOut(rs.hc, src, ranConfig, log, k)

SamplePhase(hc, src, ranConfig, log, k) ==
    \E order \in Orders(DOMAIN hc) :
    \E faults \in FaultPlans(Len(order), k, SampleErrors, Nil) :
        SampleDone(SampleLoop(hc, order, 1, faults), src, ranConfig, log,
                   k - NumFaults(faults, Nil))

\* A warm-up loop whose sample is the one the values are read from.
WarmUpDoneNoSecondSample(rw, src, log, k) ==
    IF rw.err # Nil
    THEN Return(rw.hc, src, FALSE, checkError(cfg.IgnoredErrors, rw.err), rw.err,
                "warmup", TRUE, log, k)
    ELSE FanOut(rw.hc, src, TRUE, log, k)

\* The warm-up loop of the configuration block is over with result rw.
WarmUpDone(rw, src, log, k) ==
    IF rw.err # Nil
    THEN Return(rw.hc, src, FALSE, checkError(cfg.IgnoredErrors, rw.err), rw.err,
                "warmup", TRUE, log, k)
    ELSE SamplePhase(rw.hc, src, TRUE, log, k)

WarmUpPhase(hc, src, log, k) ==
    \E order \in Orders(DOMAIN hc) :
    \E faults \in FaultPlans(Len(order), k, SampleErrors, Nil) :
        WarmUpDone(SampleLoop(hc, order, 1, faults), src, log, k - NumFaults(faults, Nil))

\* ParseConfig is over with result rp.
Parsed(rp, src, k) ==
    IF rp.err # Nil
    THEN Return(rp.hc, src, FALSE, rp.err, rp.err, "parse", TRUE, rp.log, k)
    ELSE WarmUpPhase(rp.hc, src, rp.log, k)

\* cleanQueries is over with result rc.
Cleaned(rc, k) ==
    IF rc.err # Nil
    THEN Return(rc.hc, Sources, FALSE, rc.err, rc.err, "clean", TRUE, <<>>, k)
    ELSE \E plan \in FaultPlans(Len(Combos(cfg.Object, DefaultSources(Sources))), k,
                                ParseFaults(nat, cfg), NoFault) :
            Parsed(ParseConfig(nat, cfg, Sources, rc.hc, plan), DefaultSources(Sources),
                   k - NumFaults(plan, NoFault))

\* The block run while lastRefreshed is zero.
ConfigPhase(k) ==
    \E order \in Orders(DOMAIN hostCounters) :
    \E closeFaults \in FaultPlans(Len(order), k, CloseErrors, Nil) :
        Cleaned(cleanQueries(hostCounters, order, closeFaults),
                k - NumFaults(closeFaults, Nil))

GatherBegin ==
    /\ pc = "idle"
    /\ calls < MaxCalls
    /\ calls' = calls + 1
    /\ prev' = [returned |-> calls > 0,
                clean |-> calls > 0 /\ last.phase = "extract" /\ last.readsOk,
                erred |-> calls > 0 /\ ret.err # Nil,
                keys |-> InstanceKeys(ret.acc),
                registered |-> Registered(hostCounters),
                injected |-> injected]
    /\ UNCHANGED <<cfg, nat, codec>>
    /\ IF lastRefreshed
       THEN SamplePhase(hostCounters, Sources, FALSE, <<>>, MaxFaults - injected)
       ELSE ConfigPhase(MaxFaults - injected)

\* Whether another task's write into the shared map is in progress.
Racing(h) == \E o \in DOMAIN task : o # h /\ task[o].st = "writing"

\* gatherComputerCounters of host h returned r after the reads met faults.
Extracted(h, faults, r) ==
    IF r.panic
    THEN /\ pc' = "crashed"
         /\ task' = task
    ELSE /\ pc' = pc
         /\ task' = [o \in DOMAIN task |->
                       IF o = h
                       THEN [st |-> "writing", res |-> r.acc, err |-> r.err,
                             raced |-> Racing(h),
                             reads |-> faults]
                       ELSE IF task[o].st = "writing"
                       THEN [task[o] EXCEPT !.raced = TRUE]
                       ELSE task[o]]

\* One extraction task: gatherComputerCounters on the host's own data,
\* then the start of its write acc[hostInfo.computer] = ... into the map
\* all tasks share.  Two writes in progress at once are a data race.
TaskExtract(h) ==
    /\ pc = "fanout"
    /\ h \in DOMAIN task
    /\ task[h].st = "run"
    /\ \E faults \in FaultPlans(Len(hostCounters[h].counters), MaxFaults - injected,
                               ReadErrors, Nil) :
         /\ injected' = injected + NumFaults(faults, Nil)
         /\ Extracted(h, faults, gatherComputerCounters(nat, cfg, hostCounters[h], faults))
    /\ UNCHANGED <<codec, cfg, nat, Sources, lastRefreshed, hostCounters, acc, ret,
                   collectErr, calls, last, prev>>

\* The outcomes of a map write: it lands; or, when it raced with another
\* write, it may be lost or the runtime may stop the process.
WriteOutcomes(raced) == IF raced THEN {"stored", "lost", "fatal"} ELSE {"stored"}

TaskDone(h) ==
    /\ pc = "fanout"
    /\ h \in DOMAIN task
    /\ task[h].st = "writing"
    /\ \E outcome \in WriteOutcomes(task[h].raced) :
         /\ pc' = IF outcome = "fatal" THEN "crashed" ELSE pc
         /\ acc' = IF outcome = "stored" THEN Put(acc, h, task[h].res) ELSE acc
    /\ task' = [task EXCEPT ![h].st = "done"]
    /\ UNCHANGED <<codec, cfg, nat, Sources, lastRefreshed, hostCounters, ret,
                   collectErr, calls, injected, last, prev>>

\* The hosts whose extraction returned an error (the call logs it).
ErroredHosts == {h \in DOMAIN task : task[h].err # Nil}

\* wg.Wait() is over: Gather returns acc, and collect looks localhost up.
\* The tasks and the call's map are gone.
GatherReturn ==
    /\ pc = "fanout"
    /\ \A h \in DOMAIN task : task[h].st = "done"
    /\ pc' = "idle"
    /\ ret' = [acc |-> acc, err |-> Nil]
    /\ collectErr' = collect([acc |-> acc, err |-> Nil])
    /\ task' = EmptyMap
    /\ acc' = EmptyMap
    /\ last' = [last EXCEPT !.readsOk = AllReadsOk, !.errored = ErroredHosts]
    /\ UNCHANGED <<codec, cfg, nat, Sources, lastRefreshed, hostCounters, calls, injected, prev>>

Next ==
    \/ GatherBegin
    \/ \E h \in DOMAIN task : TaskExtract(h)
    \/ \E h \in DOMAIN task : TaskDone(h)
    \/ GatherReturn

Spec == Init /\ [][Next]_vars

(***************************************************************************)
(* sanitizeMetricName.                                                     *)
(***************************************************************************)
UpperCase == <<"A", "B", "C", "D", "E", "F", "G", "H", "I", "J", "K", "L", "M",
               "N", "O", "P", "Q", "R", "S", "T", "U", "V", "W", "X", "Y", "Z">>
LowerCase == <<"a", "b", "c", "d", "e", "f", "g", "h", "i", "j", "k", "l", "m",
               "n", "o", "p", "q", "r", "s", "t", "u", "v", "w", "x", "y", "z">>

\* strings.ToLower, character by character.
ToLowerChar(ch) ==
    IF \E i \in DOMAIN UpperCase : UpperCase[i] = ch
    THEN LowerCase[CHOOSE i \in DOMAIN UpperCase : UpperCase[i] = ch]
    ELSE ch

ToLower(s) == [i \in 1..Len(s) |-> ToLowerChar(s[i])]

\* What the replacer puts for one character.
replacer(ch) ==
    IF ch = "." \/ ch = "%" THEN <<>>
    ELSE IF ch = "/" \/ ch = " " THEN <<"_">>
    ELSE <<ch>>

RECURSIVE Replace(_)
Replace(s) == IF s = <<>> THEN <<>> ELSE replacer(Head(s)) \o Replace(Tail(s))

\* strings.Trim(s, cutset) for a cutset of one character.
RECURSIVE TrimLeft(_, _)
TrimLeft(s, cut) ==
    IF s # <<>> /\ Head(s) = cut THEN TrimLeft(Tail(s), cut) ELSE s

RECURSIVE TrimRight(_, _)
TrimRight(s, cut) ==
    IF s # <<>> /\ s[Len(s)] = cut THEN TrimRight(SubSeq(s, 1, Len(s) - 1), cut) ELSE s

\* A trim of the leading characters only.
TrimLeftOnly(s, cut) == TrimLeft(s, cut)

Trim(s, cut) == TrimRight(TrimLeft(s, cut), cut)

sanitizeMetricName(name) == Trim(Replace(ToLower(name)), "_")

(***************************************************************************)
(* The string functions applied to bounded inputs: a tuple is formatted    *)
(* and the path parsed back, a text is parsed as a path, a text is         *)
(* sanitized as a metric name.                                             *)
(***************************************************************************)
\* The longest object and instance name of a tuple.
MaxPartLen == 2

\* The longest text parsed as a path.
MaxPathLen == 5

\* The longest text sanitized as a metric name.
MaxNameLen == 4

\* The strings over alphabet of at most n characters.
Strings(alphabet, n) == UNION {[1..k -> alphabet] : k \in 0..n}

PathAlphabet == {"a", BS, LP, RP}
NameAlphabet == {"A", "a", "%", ".", "/", " ", "_"}

TupleHosts == {<<>>, localhost, <<"h">>, <<BS>>, <<LP>>, <<LP, RP>>}
TupleCounters == {<<"c">>, <<>>, <<BS>>, <<RP>>, <<LP, BS, RP>>}

Tuples ==
    {[computer |-> h, objectName |-> o, instance |-> i, counter |-> c] :
        h \in TupleHosts, o \in Strings(PathAlphabet, MaxPartLen),
        i \in Strings(PathAlphabet, MaxPartLen) \cup {emptyInstance}, c \in TupleCounters}

CodecInit ==
    /\ \E s \in Setups : cfg = s.cfg /\ nat = s.nat /\ s.cfg.Object = <<>> /\ s.nat = EnvPlain
                         /\ s.cfg.IgnoredErrors = <<>> /\ s.cfg.UseWildcardsExpansion
                         /\ s.cfg.LocalizeWildcardsExpansion
    /\ Sources = <<>>
    /\ lastRefreshed = FALSE
    /\ hostCounters = EmptyMap
    /\ pc = "idle"
    /\ task = EmptyMap
    /\ acc = EmptyMap
    /\ ret = NoRet
    /\ collectErr = Nil
    /\ calls = 0
    /\ injected = 0
    /\ last = NoCall
    /\ prev = NoPrev
    /\ \/ \E t \in Tuples : codec = [NoCodec EXCEPT !.stage = "tuple", !.tuple = t]
       \/ \E x \in Strings(PathAlphabet, MaxPathLen) :
             codec = [NoCodec EXCEPT !.stage = "path", !.path = x]
       \/ \E x \in Strings(NameAlphabet, MaxNameLen) :
             codec = [NoCodec EXCEPT !.stage = "text", !.text = x]

\* formatPath builds the path of the tuple.
FormatPath ==
    /\ codec.stage = "tuple"
    /\ codec' = [codec EXCEPT !.stage = "formatted",
                              !.path = formatPath(codec.tuple.computer, codec.tuple.objectName,
                                                  codec.tuple.instance, codec.tuple.counter)]
    /\ UNCHANGED engine

\* The parser takes a path apart, one formatPath built or a given one.
ParsePath ==
    /\ codec.stage \in {"formatted", "path"}
    /\ codec' = [codec EXCEPT !.stage = IF codec.stage = "formatted" THEN "recovered"
                                        ELSE "parsed",
                              !.parsed = extractCounterInfoFromCounterPath(codec.path)]
    /\ UNCHANGED engine

\* sanitizeMetricName makes a metric name of a text.
SanitizeName ==
    /\ codec.stage = "text"
    /\ codec' = [codec EXCEPT !.stage = "sanitized", !.name = sanitizeMetricName(codec.text)]
    /\ UNCHANGED engine

CodecNext == FormatPath \/ ParsePath \/ SanitizeName

CodecSpec == CodecInit /\ [][CodecNext]_vars

(***************************************************************************)
(* Properties.                                                             *)
(***************************************************************************)
\* The latest Gather call went through extraction and has returned.
ReturnedFromExtraction == pc = "idle" /\ last.phase = "extract"

\* The counters in the list of host h.
CountersOf(h) == {hostCounters[h].counters[i] : i \in 1..Len(hostCounters[h].counters)}

AllCounters == UNION {CountersOf(h) : h \in DOMAIN hostCounters}

\* The objects configured with the pattern * alone, by includeTotal.
StarObjects(includeTotal) ==
    {cfg.Object[i].ObjectName :
        i \in {j \in 1..Len(cfg.Object) :
                 cfg.Object[j].Instances = <<Star>> /\ cfg.Object[j].IncludeTotal = includeTotal}}

\* The instance keys an Accumulator holds under [o][c].
KeysUnder(a, o, c) == IF o \in DOMAIN a /\ c \in DOMAIN a[o] THEN DOMAIN a[o][c] ELSE {}

\* The names among names that pass the total-inclusion test.
IncludedNames(names, includeTotal) ==
    {names[i] : i \in {j \in 1..Len(names) : includeTotal \/ ~Contains(names[j], TotalName)}}

\* The fault plan of an extraction in which no read fails.
NoReadFaults(h) == [i \in 1..Len(hostCounters[h].counters) |-> Nil]

\* The names, after the '#' correction, of the array the native layer
\* returns for counter c of the local host.
ArrayKeys(c) ==
    {CorrectedName(c, v) :
        v \in {QueryGetCounterArray(nat, hostCounters[localhost].query,
                                    c.counterHandle, Nil).values[i] :
                 i \in 1..Len(QueryGetCounterArray(nat, hostCounters[localhost].query,
                                                   c.counterHandle, Nil).values)}}

\* C1: with wildcard expansion, for an object with pattern * and
\* includeTotal false no counter in any host's list has an instance equal
\* to or containing _Total; with includeTotal true, once the parse went
\* through without a failure, an instance containing _Total is in the list.
C1_ExpansionExcludesTotals ==
    cfg.UseWildcardsExpansion =>
        /\ \A c \in AllCounters :
              c.objectName \in StarObjects(FALSE) => ~Contains(c.instance, TotalName)
        /\ (/\ last.ranConfig
            /\ last.phase \in {"warmup", "sample", "extract"}
            /\ \A i \in 1..Len(last.log) : last.log[i] = Nil)
           => \A o \in StarObjects(TRUE) :
                 \E c \in AllCounters : c.objectName = o /\ Contains(c.instance, TotalName)

\* C2: without wildcard expansion, for a counter registered with pattern *
\* the Accumulator Gather returns holds, under [object][counter], one key
\* for every name of the native array that passes the total-inclusion test.
C2_ArrayEntriesAllKept ==
    (/\ ReturnedFromExtraction
     /\ ~cfg.UseWildcardsExpansion
     /\ last.readsOk
     /\ localhost \in DOMAIN ret.acc
     /\ localhost \in DOMAIN hostCounters)
    => \A c \in CountersOf(localhost) :
          c.instance = Star
          => KeysUnder(ret.acc[localhost], c.objectName, c.counter)
               = IncludedNames(nat.instances, c.includeTotal)

\* C3: without wildcard expansion, for a counter requested as * with
\* includeTotal false no key of the Accumulator equals or contains _Total;
\* and an array entry is in the Accumulator when includeTotal is true, when
\* its name is the requested instance, or when the requested instance is
\* the sentinel ------.
C3_InclusionRule ==
    (/\ ReturnedFromExtraction
     /\ ~cfg.UseWildcardsExpansion
     /\ last.readsOk
     /\ localhost \in DOMAIN ret.acc
     /\ localhost \in DOMAIN hostCounters)
    => \A c \in CountersOf(localhost) :
          /\ (c.instance = Star /\ ~c.includeTotal)
             => \A n \in KeysUnder(ret.acc[localhost], c.objectName, c.counter) :
                   ~Contains(n, TotalName)
          /\ \A n \in ArrayKeys(c) :
                (c.includeTotal \/ n = c.instance \/ c.instance = emptyInstance)
                => n \in KeysUnder(ret.acc[localhost], c.objectName, c.counter)

\* Whether err wraps a native code whose symbolic name is in IgnoredErrors.
NameIgnored(err) ==
    /\ err.kind = "pdh"
    /\ \E i \in 1..Len(cfg.IgnoredErrors) : cfg.IgnoredErrors[i] = PDHErrors[err.code]

\* The latest Gather call returned from a failed warm-up or regular sample.
SampleFailed == pc = "idle" /\ last.phase \in {"warmup", "sample"}

\* C4: when a host's sample (warm-up or regular) fails, Gather returns an
\* empty result, and no error if the symbolic name of the failure's native
\* code is in IgnoredErrors, else the error of the failure.
C4_IgnoredSampleErrors ==
    SampleFailed
    => /\ ret.acc = EmptyMap
       /\ ret.err = (IF NameIgnored(last.rawErr) THEN Nil ELSE last.rawErr)

\* A warm-up sample failed with an ignored native code: Gather returned
\* the empty result and no error.
C4_Witness ==
    /\ SampleFailed
    /\ last.phase = "warmup"
    /\ NameIgnored(last.rawErr)
    /\ ret = [acc |-> EmptyMap, err |-> Nil]

\* C5: in an engine set up as the collector sets it up, with PDH_NO_DATA
\* among the ignored errors, a scrape whose sampling fails with PDH_NO_DATA
\* ends without the collector reporting an error.
C5_IgnoredNoDataScrapeSucceeds ==
    (/\ SampleFailed
     /\ cfg.LocalizeWildcardsExpansion
     /\ last.rawErr = PdhError("PdhNoData")
     /\ \E i \in 1..Len(cfg.IgnoredErrors) : cfg.IgnoredErrors[i] = "PDH_NO_DATA")
    => collectErr = Nil

\* C6: a Gather call that follows a Gather call on the configured engine,
\* no native operation failing in either, does not run the configuration
\* block (nothing is closed, opened or added) and returns the instance keys
\* the call before it returned.
C6_SecondGatherSameKeys ==
    (ReturnedFromExtraction /\ last.readsOk /\ prev.clean)
    => /\ ~last.ranConfig
       /\ Registered(hostCounters) = prev.registered
       /\ InstanceKeys(ret.acc) = prev.keys

\* C7: a Gather call that reaches extraction has sampled every host twice
\* when it ran the configuration block and once when it did not, and the
\* values its tasks read are those of the last of these samples.
C7_WarmUpSample ==
    last.phase = "extract"
    => /\ DOMAIN last.samples = DOMAIN hostCounters
       /\ \A h \in DOMAIN hostCounters :
             last.samples[h] = (IF last.ranConfig THEN 2 ELSE 1)
       /\ \A h \in DOMAIN task :
             \A o \in DOMAIN task[h].res : \A c \in DOMAIN task[h].res[o] :
             \A i \in DOMAIN task[h].res[o][c] :
                task[h].res[o][c][i] = hostCounters[h].query.samples

\* The first call of an engine with two hosts returned: each host was
\* sampled twice and the values returned are those of the second sample.
C7_Witness ==
    /\ ReturnedFromExtraction
    /\ last.ranConfig
    /\ Cardinality(DOMAIN hostCounters) = 2
    /\ \A h \in DOMAIN hostCounters : last.samples[h] = 2
    /\ \E h \in DOMAIN ret.acc : \E o \in DOMAIN ret.acc[h] : \E c \in DOMAIN ret.acc[h][o] :
       \E i \in DOMAIN ret.acc[h][o][c] : ret.acc[h][o][c][i] = 2

\* The five built-in codes a value read may fail with and be tolerated.
FiveCodes ==
    {"PdhInvalidData", "PdhCalcNegativeDenominator", "PdhCalcNegativeValue",
     "PdhCstatusInvalidData", "PdhNoData"}

Tolerated(err) == err.kind = "pdh" /\ err.code \in FiveCodes

\* C8: when the extraction of host A ends in an error (a value read
\* failed with a non-benign error), Gather returns no error, the result
\* holds an empty Accumulator for A, and for every other host the
\* Accumulator an extraction without failure gives.
C8_FailureIsolatedToHost ==
    ReturnedFromExtraction
    => \A a \in last.errored :
          /\ ret.err = Nil
          /\ a \in DOMAIN ret.acc
          /\ ret.acc[a] = EmptyMap
          /\ \A b \in (DOMAIN hostCounters) \ {a} :
                /\ b \in DOMAIN ret.acc
                /\ ret.acc[b] = gatherComputerCounters(nat, cfg, hostCounters[b],
                                                       NoReadFaults(b)).acc

\* Whether a read of a counter with the object, counter (and, with
\* expansion, instance) of counter i of host h succeeded in its task.
SomeReadOk(h, i) ==
    \E j \in 1..Len(task[h].reads) :
        /\ task[h].reads[j] = Nil
        /\ hostCounters[h].counters[j].objectName = hostCounters[h].counters[i].objectName
        /\ hostCounters[h].counters[j].counter = hostCounters[h].counters[i].counter
        /\ cfg.UseWildcardsExpansion
           => hostCounters[h].counters[j].instance = hostCounters[h].counters[i].instance

\* Whether Accumulator a holds what counter c gives: with expansion its
\* instance key, else the inner map of its counter.
HoldsCounter(a, c) ==
    IF cfg.UseWildcardsExpansion
    THEN c.instance \in KeysUnder(a, c.objectName, c.counter)
    ELSE c.objectName \in DOMAIN a /\ c.counter \in DOMAIN a[c.objectName]

ConfiguredCombos == Combos(cfg.Object, DefaultSources(<<>>))

\* Call i of the parse failed and its object has failOnMissing set.
FailsOnMissing(i) == last.log[i] # Nil /\ ConfiguredCombos[i].obj.FailOnMissing

\* The latest Gather call ran ParseConfig on a configuration with objects.
RanParseConfig ==
    last.ranConfig /\ last.phase \notin {"none", "clean"} /\ Len(cfg.Object) > 0

\* C10: ParseConfig returns the error of the first failed registration
\* whose object has failOnMissing set, making no later AddItem call; a
\* failed registration of any other object is skipped: ParseConfig makes
\* the AddItem call of every remaining combination and returns success,
\* and (without expansion) every call that did not fail left its counter
\* in the list of its host.
C10_FailOnMissing ==
    RanParseConfig
    => /\ IF \E i \in 1..Len(last.log) : FailsOnMissing(i)
          THEN /\ last.phase = "parse"
               /\ FailsOnMissing(Len(last.log))
               /\ \A i \in 1..(Len(last.log) - 1) : ~FailsOnMissing(i)
               /\ ret.err = last.log[Len(last.log)]
          ELSE /\ last.phase # "parse"
               /\ Len(last.log) = Len(ConfiguredCombos)
       /\ ~cfg.UseWildcardsExpansion
          => \A h \in DOMAIN hostCounters :
                Len(hostCounters[h].counters)
                  = Cardinality({i \in 1..Len(last.log) :
                                   ConfiguredCombos[i].computer = h /\ last.log[i] = Nil})

\* A registration failed, was skipped, a later one succeeded and the call
\* went on to extraction.
C10_Witness ==
    /\ RanParseConfig
    /\ last.phase = "extract"
    /\ \E i, j \in 1..Len(last.log) : i < j /\ last.log[i] # Nil /\ last.log[j] = Nil

\* The computers the configuration names.
ConfiguredHosts == {ConfiguredCombos[i].computer : i \in 1..Len(ConfiguredCombos)}

\* The plan of a ParseConfig in which no native call fails.
NoParseFaults == [i \in 1..Len(ConfiguredCombos) |-> NoFault]

\* The counters a ParseConfig without failure leaves in the list of host h.
FullCounters(h) == ParseConfig(nat, cfg, <<>>, EmptyMap, NoParseFaults).hc[h].counters

\* No native call failed during the latest Gather call.
NoFaultInCall == injected = prev.injected

\* C11: a Gather call during which no native operation fails, made after
\* a Gather call that returned an error, returns no error and the full
\* result: an Accumulator for every configured host, holding what the
\* extraction of all the configured counters gives.
C11_RecoversAfterError ==
    (pc = "idle" /\ prev.erred /\ NoFaultInCall /\ Len(cfg.Object) > 0)
    => /\ ret.err = Nil
       /\ DOMAIN ret.acc = ConfiguredHosts
       /\ \A h \in DOMAIN ret.acc :
             /\ h \in DOMAIN hostCounters
             /\ hostCounters[h].counters = FullCounters(h)
             /\ ret.acc[h] = gatherComputerCounters(nat, cfg, hostCounters[h],
                                                    NoReadFaults(h)).acc

\* C12: in every state every native add-counter, expand, sample and
\* value-read call has been made on a host query that had been opened and
\* not closed: no registered query has had an add-counter or a sample made
\* on it while it was not open, and the queries the extraction tasks read
\* from are open.
C12_CallsOnOpenQueriesOnly ==
    /\ \A h \in DOMAIN hostCounters : ~hostCounters[h].query.badUse
    /\ pc = "fanout" => \A h \in DOMAIN hostCounters : IsOpen(hostCounters[h].query)

\* Whether counter i of host h is the last one in the list with its object
\* and counter name.
LastOfItsName(h, i) ==
    \A j \in (i + 1)..Len(hostCounters[h].counters) :
        \/ hostCounters[h].counters[j].objectName # hostCounters[h].counters[i].objectName
        \/ hostCounters[h].counters[j].counter # hostCounters[h].counters[i].counter

\* The keys the returned Accumulator of host h holds for counter c.
ReturnedKeys(h, c) == KeysUnder(ret.acc[h], c.objectName, c.counter)

\* The first two characters of an identifier.
Truncated(instance) == SubSeq(instance, 1, 2)

RECURSIVE WellFormedFrom(_, _, _)
WellFormedFrom(s, i, depth) ==
    IF i > Len(s) THEN depth = 0
    ELSE IF s[i] = LP THEN WellFormedFrom(s, i + 1, depth + 1)
    ELSE IF s[i] = RP THEN depth > 0 /\ WellFormedFrom(s, i + 1, depth - 1)
    ELSE IF s[i] = BS THEN depth > 0 /\ WellFormedFrom(s, i + 1, depth)
    ELSE WellFormedFrom(s, i + 1, depth)

WellFormed(s) == WellFormedFrom(s, 1, 0)

NoParenthesis(s) == \A i \in 1..Len(s) : s[i] # LP /\ s[i] # RP

\* A tuple formatPath and the parser agree on: every part has balanced
\* parentheses and no backslash outside them, and a tuple without instance
\* has no parenthesis in its host and object.
ValidTuple(t) ==
    /\ WellFormed(t.computer) /\ WellFormed(t.objectName)
    /\ WellFormed(t.instance) /\ WellFormed(t.counter)
    /\ t.instance = emptyInstance => NoParenthesis(t.computer) /\ NoParenthesis(t.objectName)

\* The tuple as the parser returns it when it returns it unchanged.
AsParsed(t) ==
    [err |-> FALSE, computer |-> t.computer, object |-> t.objectName,
     instance |-> t.instance, counter |-> t.counter]

\* The tuple with the sentinel instance and the local host alias replaced
\* by the empty string.
Normalized(t) ==
    [t EXCEPT !.instance = IF t.instance = emptyInstance THEN <<>> ELSE t.instance,
              !.computer = IF t.computer = localhost THEN <<>> ELSE t.computer]

\* C14: parsing the path formatPath builds of a valid tuple recovers the
\* tuple itself, the sentinel instance and the local host alias included.
C14_RoundTrip ==
    (codec.stage = "recovered" /\ ValidTuple(codec.tuple))
    => codec.parsed = AsParsed(codec.tuple)

\* C14, amended: parsing the path formatPath builds of a valid tuple
\* recovers the object and the counter, the instance with the sentinel
\* returned as the empty string, and the host with the local host alias
\* returned as the empty string.
C14_RoundTripNormalized ==
    (codec.stage = "recovered" /\ ValidTuple(codec.tuple))
    => codec.parsed = AsParsed(Normalized(codec.tuple))

\* A tuple of the local host without instance has been formatted and
\* parsed back.
C14_Witness ==
    /\ codec.stage = "recovered" /\ ValidTuple(codec.tuple)
    /\ codec.tuple.instance = emptyInstance /\ codec.tuple.computer = localhost
    /\ codec.tuple.objectName # <<>>
    /\ codec.parsed.instance = <<>> /\ codec.parsed.computer = <<>>
    /\ codec.parsed.object = codec.tuple.objectName

\* C15: object Processor Information, instances [*], counter % Processor
\* Utility, includeTotal off, wildcard expansion on a host whose expansion
\* returns 0, 1, 2, 3 and _Total: a Gather call in which nothing failed
\* returns exactly the keys 0, 1, 2, 3 under that object and counter, and
\* nothing else.
C15_FourCoreScenario ==
    (ReturnedFromExtraction /\ injected = 0 /\ [cfg |-> cfg, nat |-> nat] \in FourCoreSetups)
    => /\ ret.err = Nil
       /\ DOMAIN ret.acc = {localhost}
       /\ DOMAIN ret.acc[localhost] = {ProcessorInformation}
       /\ DOMAIN ret.acc[localhost][ProcessorInformation] = {ProcessorUtility}
       /\ DOMAIN ret.acc[localhost][ProcessorInformation][ProcessorUtility]
              = {Inst0, Inst1, Inst2, Inst3}

\* The scenario's Gather call has returned its four entries.
C15_Witness ==
    /\ ReturnedFromExtraction /\ injected = 0 /\ [cfg |-> cfg, nat |-> nat] \in FourCoreSetups
    /\ Cardinality(KeysUnder(ret.acc[localhost], ProcessorInformation, ProcessorUtility)) = 4

\* Whether object i of the configuration has no pattern *.
NoStarPattern(i) == \A j \in 1..Len(cfg.Object[i].Instances) : cfg.Object[i].Instances[j] # Star

\* The configuration with includeTotal the other way round on every
\* object that has no pattern *.
FlipTotals(m) ==
    [m EXCEPT !.Object = [i \in 1..Len(m.Object) |->
        IF NoStarPattern(i) THEN [m.Object[i] EXCEPT !.IncludeTotal = ~m.Object[i].IncludeTotal]
        ELSE m.Object[i]]]

\* The objects without pattern *, by name.
NoStarObjects == {cfg.Object[i].ObjectName : i \in {j \in 1..Len(cfg.Object) : NoStarPattern(j)}}

\* A host's list with the includeTotal flag its counters would carry under
\* FlipTotals.
FlipCounters(hostCounterInfo) ==
    [hostCounterInfo EXCEPT !.counters = [i \in 1..Len(hostCounterInfo.counters) |->
        IF hostCounterInfo.counters[i].objectName \in NoStarObjects
        THEN [hostCounterInfo.counters[i] EXCEPT
                 !.includeTotal = ~hostCounterInfo.counters[i].includeTotal]
        ELSE hostCounterInfo.counters[i]]]

\* What a ParseConfig registers, the flag the counters carry left out.
RegisteredBy(r) ==
    [err |-> r.err, log |-> r.log,
     hosts |-> [h \in DOMAIN r.hc |->
                  [query |-> r.hc[h].query,
                   counters |-> [i \in 1..Len(r.hc[h].counters) |->
                                   [r.hc[h].counters[i] EXCEPT !.includeTotal = FALSE]]]]]

\* The fault plans of a ParseConfig and of a host's extraction.
ParsePlans ==
    FaultPlans(Len(ConfiguredCombos), MaxFaults, ParseFaults(nat, cfg), NoFault)
ReadPlans(h) == FaultPlans(Len(hostCounters[h].counters), MaxFaults, ReadErrors, Nil)

C17_NoObjectsIsAnError ==
    (pc = "idle" /\ calls > 0 /\ Len(cfg.Object) = 0)
    => /\ last.ranConfig /\ last.phase = "parse"
       /\ ret.err = NoObjectsError
       /\ ret.acc = EmptyMap
       /\ collectErr = NoObjectsError
       /\ hostCounters = EmptyMap
       /\ ~lastRefreshed

\* A second Gather call without objects has returned the error.
C17_Witness ==
    /\ pc = "idle" /\ calls > 1 /\ Len(cfg.Object) = 0
    /\ ret.err = NoObjectsError /\ prev.erred

\* The host prefix and the instance parenthetical a path is to carry.
HostPrefix(computer) ==
    IF computer = <<>> \/ computer = localhost THEN <<>> ELSE <<BS, BS>> \o computer
InstancePart(instance) ==
    IF instance = emptyInstance THEN <<>> ELSE <<LP>> \o instance \o <<RP>>

\* C18: the path formatPath builds is the host prefix \\host, left out
\* exactly when the host is empty or localhost, then \object, then the
\* parenthetical (instance), left out exactly when the instance is the
\* sentinel ------, then \counter.
C18_FormatPathShape ==
    codec.stage \in {"formatted", "recovered"}
    => codec.path = HostPrefix(codec.tuple.computer)
                      \o <<BS>> \o codec.tuple.objectName
                      \o InstancePart(codec.tuple.instance)
                      \o <<BS>> \o codec.tuple.counter

\* A path with host prefix and without parenthetical, or one without host
\* prefix and with parenthetical, has been built.
C18_Witness ==
    /\ codec.stage = "formatted"
    /\ \/ /\ codec.tuple = [computer |-> <<"h">>, objectName |-> <<"a">>,
                            instance |-> emptyInstance, counter |-> <<"c">>]
          /\ codec.path = <<BS, BS, "h", BS, "a", BS, "c">>
       \/ /\ codec.tuple = [computer |-> localhost, objectName |-> <<"a">>,
                            instance |-> <<"a">>, counter |-> <<"c">>]
          /\ codec.path = <<BS, "a", LP, "a", RP, BS, "c">>

\* The closing minus the opening parentheses to the right of position i.
RightDepth(path, i) ==
    Cardinality({j \in (i + 1)..Len(path) : path[j] = RP})
      - Cardinality({j \in (i + 1)..Len(path) : path[j] = LP})

\* The positions of the backslashes outside parentheses.
TopBackslashes(path) == {i \in 1..Len(path) : path[i] = BS /\ RightDepth(path, i) = 0}

\* The n-th of them from the right.
FromRight(path, n) ==
    CHOOSE i \in TopBackslashes(path) :
        Cardinality({j \in TopBackslashes(path) : j > i}) = n - 1

\* The object or the counter segment cannot be located.
NoSegments(path) == Cardinality(TopBackslashes(path)) < 2

\* There is a host separator and it is not the second character, or
\* nothing stands between it and the backslash of the object.
HostMalformed(path) ==
    /\ Cardinality(TopBackslashes(path)) >= 3
    /\ \/ FromRight(path, 3) # 2
       \/ FromRight(path, 3) = FromRight(path, 2) - 1

\* C19: the parser returns a path-parse error and no tuple for every path
\* with fewer than two backslashes outside parentheses and for every path
\* whose host prefix is malformed.
C19_MalformedPathsFail ==
    (codec.stage \in {"parsed", "recovered"}
       /\ (NoSegments(codec.path) \/ HostMalformed(codec.path)))
    => codec.parsed = PathError

\* A path with a malformed host prefix has been parsed.
C19_Witness ==
    /\ codec.stage = "parsed"
    /\ HostMalformed(codec.path)
    /\ codec.parsed.err

\* What a character of a name becomes: lowercase, '_' for a space and '/'.
ExpectedChar(ch) ==
    CASE ch = "A" -> "a"
      [] ch = " " -> "_"
      [] ch = "/" -> "_"
      [] OTHER -> ch

\* The positions of a name that are neither '%' nor '.', those of them that
\* do not become '_', and those from the first to the last of the latter.
KeptPositions(name) == {i \in 1..Len(name) : name[i] # "%" /\ name[i] # "."}
CorePositions(name) == {i \in KeptPositions(name) : ExpectedChar(name[i]) # "_"}
SpanPositions(name) ==
    {i \in KeptPositions(name) :
        /\ \E j \in CorePositions(name) : j <= i
        /\ \E j \in CorePositions(name) : j >= i}

\* The k-th position of a set of positions.
Nth(S, k) == CHOOSE i \in S : Cardinality({j \in S : j < i}) = k - 1

\* The name the claim describes.
ExpectedName(name) ==
    [k \in 1..Cardinality(SpanPositions(name)) |->
        ExpectedChar(name[Nth(SpanPositions(name), k)])]

\* C20: sanitizeMetricName returns the name lowercased, every '%' and '.'
\* removed, every space and '/' replaced by '_', leading and trailing '_'
\* trimmed; the result holds no uppercase letter, '%', '.', space or '/'
\* and neither begins nor ends with '_'.
C20_SanitizedName ==
    codec.stage = "sanitized"
    => /\ codec.name = ExpectedName(codec.text)
       /\ \A i \in 1..Len(codec.name) : codec.name[i] \notin {"A", "%", ".", " ", "/"}
       /\ codec.name # <<>> => codec.name[1] # "_" /\ codec.name[Len(codec.name)] # "_"

\* A name that begins with a space and holds an uppercase letter and a '%'
\* has been sanitized to a name that is not empty.
C20_Witness ==
    /\ codec.stage = "sanitized"
    /\ Len(codec.text) > 2
    /\ codec.text[1] = " " /\ codec.text[Len(codec.text)] = "/"
    /\ \E i, j \in 1..Len(codec.text) : codec.text[i] = "A" /\ codec.text[j] = "%"
    /\ codec.name = <<"a">>

\* The tasks whose write into the map all tasks share is in progress.
Writers == {h \in DOMAIN task : task[h].st = "writing"}

\* C21: during the extraction phase no two tasks are writing the same
\* shared result map at the same time: every task's result goes into a slot
\* of its own and no write of a task has met the write of another one.
C21_NoTwoWritersOnSharedMap ==
    pc = "fanout"
    => /\ Cardinality(Writers) <= 1
       /\ \A h \in DOMAIN task : ~task[h].raced

\* While extraction tasks exist the sample loop of the call is over: there
\* is one task per host, every host was sampled in this call, and the call
\* has not returned.
SampledBeforeExtraction ==
    task # EmptyMap
    => /\ pc # "idle"
       /\ ret = NoRet
       /\ last.phase = "extract"
       /\ DOMAIN task = DOMAIN hostCounters
       /\ \A h \in DOMAIN task : last.samples[h] >= 1

\* A call whose sampling failed on a host started no extraction task.
NoTaskAfterFailedSample ==
    last.phase \in {"warmup", "sample"}
    => /\ pc = "idle"
       /\ task = EmptyMap
       /\ ret.acc = EmptyMap

\* No sample is taken while extraction tasks run, and the call returns only
\* when every task has completed.
ExtractionStep ==
    pc = "fanout"
    => /\ \A h \in DOMAIN hostCounters :
            hostCounters'[h].query.samples = hostCounters[h].query.samples
       /\ pc' = "idle" => \A h \in DOMAIN task : task[h].st = "done"

\* C22: within one Gather call every host's sample completes before any
\* extraction task reads a value, Gather returns only after every
\* extraction task has completed, and a call whose sampling failed on a
\* host starts no extraction task.
C22_PhasesOrdered ==
    /\ [](SampledBeforeExtraction /\ NoTaskAfterFailedSample)
    /\ [][ExtractionStep]_vars

\* A call on two hosts is in its extraction phase after two samples of each
\* host, with one task done and the other one not yet started.
C22_Witness ==
    /\ pc = "fanout"
    /\ Cardinality(DOMAIN task) = 2
    /\ \A h \in DOMAIN task : last.samples[h] = 2
    /\ \E h, o \in DOMAIN task : task[h].st = "done" /\ task[o].st = "run"

\* The call of a configured engine has returned from a failed sample.
C22_WitnessFailedSample ==
    /\ last.phase = "sample"
    /\ ~last.ranConfig
    /\ last.rawErr # Nil
    /\ pc = "idle"

\* What identifies a registered counter apart from its handle.
CounterKey(c) ==
    [counterPath |-> c.counterPath, computer |-> c.computer, objectName |-> c.objectName,
     counter |-> c.counter, instance |-> c.instance]

CounterKeys(counters) == [i \in 1..Len(counters) |-> CounterKey(counters[i])]

\* The counters the AddItem call of combination i leaves when no native
\* call fails.
CountersOfCombo(i) ==
    CounterKeys(AddItem(nat, cfg, EmptyMap, AddItemArgs(ConfiguredCombos[i]), NoFault)
                  .hc[ConfiguredCombos[i].computer].counters)

\* The list of host h when every failed combination is absent and every
\* other one is there in full.
CountersOfSucceeded(h) ==
    SeqConcat([i \in 1..Len(last.log) |->
                 IF ConfiguredCombos[i].computer = h /\ last.log[i] = Nil
                 THEN CountersOfCombo(i)
                 ELSE <<>>])

\* C23: when the registration of a combination fails and the failure is
\* skipped, the host's counter list after the failed AddItem equals the
\* list before it and the counters of the other combinations are
\* unchanged: after a ParseConfig that skipped its failures every host's
\* list holds the counters of the combinations that succeeded, and no other.
C23_SkippedCombinationAbsent ==
    /\ RanParseConfig
    /\ \A i \in 1..Len(last.log) : last.log[i] # Nil => ~FailsOnMissing(i)
    => \A h \in DOMAIN hostCounters :
          CounterKeys(hostCounters[h].counters) = CountersOfSucceeded(h)

\* The object names configured with the pattern * alone and includeTotal
\* off: a concrete path of such an object comes from the pattern *.
StarOnlyObjects ==
    {cfg.Object[i].ObjectName : i \in {j \in 1..Len(cfg.Object) :
        /\ ~cfg.Object[j].IncludeTotal
        /\ \A n \in 1..Len(cfg.Object[j].Instances) : cfg.Object[j].Instances[n] = Star}}

\* Path p is a concrete _Total path of such an object.
DiscardedTotalPath(p) ==
    /\ ~extractCounterInfoFromCounterPath(p).err
    /\ extractCounterInfoFromCounterPath(p).object \in StarOnlyObjects
    /\ extractCounterInfoFromCounterPath(p).instance = TotalName

\* C24: in expansion mode a concrete path whose instance is _Total, obtained
\* from the pattern * with includeTotal off, is discarded without being
\* registered: no native add-counter call was made for it and no counter
\* for it is in the host's list.
C24_DiscardedTotalNotRegistered ==
    cfg.UseWildcardsExpansion
    => \A h \in DOMAIN hostCounters :
          /\ \A i \in 1..Len(hostCounters[h].query.paths) :
                ~DiscardedTotalPath(hostCounters[h].query.paths[i])
          /\ \A i \in 1..Len(hostCounters[h].counters) :
                ~DiscardedTotalPath(hostCounters[h].counters[i].counterPath)

\* The half of it that is about the host's list.
C24_DiscardedTotalNotInList ==
    cfg.UseWildcardsExpansion
    => \A h \in DOMAIN hostCounters :
          \A i \in 1..Len(hostCounters[h].counters) :
             ~DiscardedTotalPath(hostCounters[h].counters[i].counterPath)

\* The engine is unconfigured exactly as long as no Gather call got past
\* its warm-up loop: the latest call, if any, ended in cleanQueries, in
\* ParseConfig or in the warm-up.
UnconfiguredAfterFailure ==
    (calls > 0 /\ pc = "idle" /\ ~lastRefreshed)
    => /\ last.ranConfig
       /\ last.phase \in {"clean", "parse", "warmup"}
       /\ last.rawErr # Nil

\* The step that configures the engine is a Gather call whose ParseConfig
\* returned no error and whose warm-up sampled every host.
BecomesConfigured ==
    (~lastRefreshed /\ lastRefreshed')
    => /\ calls' = calls + 1
       /\ last'.ranConfig
       /\ last'.phase \in {"sample", "extract"}
       /\ \A i \in 1..Len(last'.log) :
             last'.log[i] # Nil => ~ConfiguredCombos[i].obj.FailOnMissing
       /\ \A h \in DOMAIN hostCounters' : last'.samples[h] >= 1

\* A Gather call of an unconfigured engine runs the configuration block.
RunsConfigurationBlock ==
    (~lastRefreshed /\ calls' = calls + 1) => last'.ranConfig

\* Such a call, when no native call fails during it, closes all queries
\* and runs ParseConfig again: it does not end in cleanQueries, and every
\* query of the new map is a new one.
StartsAgain ==
    (~lastRefreshed /\ calls' = calls + 1 /\ injected' = injected)
    => /\ last'.ranConfig
       /\ last'.phase # "clean"
       /\ \A h \in DOMAIN hostCounters' : hostCounters'[h].query.closeCalls = 0

\* C25: the engine becomes configured only after ParseConfig and every
\* host's warm-up sample succeeded in the same Gather call; after a failure
\* of one of them, an ignored sampling error included, it stays
\* unconfigured and the next Gather starts again by closing all queries and
\* running ParseConfig again; once configured it never returns to
\* unconfigured.
C25_UnconfiguredStartsAgain ==
    /\ []UnconfiguredAfterFailure
    /\ [][BecomesConfigured /\ StartsAgain /\ (lastRefreshed => lastRefreshed')]_vars

\* What holds of it: when the engine becomes configured, that it stays
\* so, and that a call of an unconfigured engine enters the configuration
\* block.
C25_ConfiguredOnlyAfterWarmUp ==
    /\ []UnconfiguredAfterFailure
    /\ [][BecomesConfigured /\ RunsConfigurationBlock
          /\ (lastRefreshed => lastRefreshed')]_vars

\* A first call whose warm-up met an ignored error returned no error and
\* left the engine unconfigured; the second call ran the configuration
\* block again and configured the engine.
C25_Witness ==
    /\ calls = 2
    /\ prev.returned /\ ~prev.erred
    /\ prev.injected = 1
    /\ prev.registered # EmptyMap
    /\ last.ranConfig
    /\ last.phase = "extract"
    /\ lastRefreshed

\* The (object, counter, instance) keys of one host's Accumulator.
AccumulatorKeys(a) ==
    UNION {UNION {{<<o, c, i>> : i \in DOMAIN a[o][c]} : c \in DOMAIN a[o]} : o \in DOMAIN a}

\* The keys of the registered counters of host h whose value read
\* succeeded in its task.
ReadKeys(h) ==
    {<<hostCounters[h].counters[i].objectName, hostCounters[h].counters[i].counter,
       hostCounters[h].counters[i].instance>> :
        i \in {j \in 1..Len(task[h].reads) : task[h].reads[j] = Nil}}

\* The extraction of host h is over and no read of it failed with an error
\* other than the benign ones.
ExtractedWithoutFailure(h) ==
    /\ task[h].st # "run"
    /\ \A i \in 1..Len(task[h].reads) :
          task[h].reads[i] # Nil => Tolerated(task[h].reads[i])

\* C26: with wildcard expansion and no non-benign read failure the
\* Accumulator a host contributes in a Gather call holds exactly the
\* (object, counter, instance) keys of the host's registered counters whose
\* value read succeeded in this call, each with the value read in this
\* call, which is that of the sample the call took.
C26_ExpansionAccumulatorExact ==
    cfg.UseWildcardsExpansion
    => \A h \in DOMAIN task :
          ExtractedWithoutFailure(h)
          => /\ AccumulatorKeys(task[h].res) = ReadKeys(h)
             /\ last.samples[h] >= 1
             /\ \A k \in AccumulatorKeys(task[h].res) :
                   task[h].res[k[1]][k[2]][k[3]] = hostCounters[h].query.samples

\* In the second call of a configured engine, with expansion, a host's
\* extraction is over: one read failed with a benign error, the
\* Accumulator holds two instances of one counter, and the call before it
\* returned the key that is now missing.
C26_Witness ==
    /\ cfg.UseWildcardsExpansion
    /\ calls = 2
    /\ ~last.ranConfig
    /\ \E h \in DOMAIN task :
          /\ ExtractedWithoutFailure(h)
          /\ \E i \in 1..Len(task[h].reads) : task[h].reads[i] # Nil
          /\ \E k1, k2 \in AccumulatorKeys(task[h].res) :
                k1 # k2 /\ k1[1] = k2[1] /\ k1[2] = k2[2]
          /\ \E k \in prev.keys : k[1] = h /\ <<k[2], k[3], k[4]>> \notin AccumulatorKeys(task[h].res)

\* The combinations of the configuration requested for host h.
CombosOf(h) == {i \in 1..Len(ConfiguredCombos) : ConfiguredCombos[i].computer = h}

\* The host a counter's computer field stands for: a path without a
\* computer, or with the machine's own name, is a path of the local host.
HostOfCounter(c) ==
    IF c.computer \in {<<>>, localhost, MachineName} THEN localhost ELSE c.computer

\* The computers ParseConfig registers the counters of an object on.
ComputersOf(obj) ==
    {IF x = <<>> THEN localhost ELSE x :
        x \in {(IF Len(obj.Sources) = 0 THEN DefaultSources(<<>>) ELSE obj.Sources)[n] :
                 n \in 1..Len(IF Len(obj.Sources) = 0 THEN DefaultSources(<<>>)
                              ELSE obj.Sources)}}

\* Counter c is a counter of object obj requested for host h.
RequestedBy(obj, c, h) ==
    /\ h \in ComputersOf(obj)
    /\ obj.ObjectName = c.objectName
    /\ \E k \in 1..Len(obj.Counters) : obj.Counters[k] = c.counter
    /\ \E n \in 1..Len(obj.Instances) :
          \/ obj.Instances[n] \in {c.instance, Star}
          \/ obj.Instances[n] = emptyInstance /\ c.instance = <<>>

\* Counter c is a counter of a combination requested for host h.
RequestedFor(c, h) ==
    /\ HostOfCounter(c) = h
    /\ \E o \in 1..Len(cfg.Object) : RequestedBy(cfg.Object[o], c, h)

\* The state a Gather call that ran the configuration block leaves at the
\* end of its sequential part; the host map is changed by no other step.
AfterConfigurationBlock ==
    /\ RanParseConfig
    /\ last.phase = "extract" => pc = "fanout" /\ \A h \in DOMAIN task : task[h].st = "run"

\* C27: during one ParseConfig a host's query is created and opened
\* exactly once, on the first path that references the host, and every
\* later path for the host reuses that state: each entry of the host map
\* is the state of its own host, Open was called once on its query, the
\* query is open when an AddItem call of the host returned no error, and
\* the path of every AddItem call of the host that returned no error was
\* added to that one query; no counter is in the list of a host other than
\* the one it was requested for.
C27_OneQueryPerHost ==
    \A h \in DOMAIN hostCounters :
       /\ hostCounters[h].computer = h
       /\ hostCounters[h].query.openCalls = 1
       /\ AfterConfigurationBlock
          => /\ \E o \in 1..Len(cfg.Object) : h \in ComputersOf(cfg.Object[o])
             /\ \A j \in 1..Len(hostCounters[h].counters) :
                   RequestedFor(hostCounters[h].counters[j], h)
             /\ \A i \in 1..Len(last.log) :
                   (last.log[i] = Nil /\ ConfiguredCombos[i].computer = h)
                   => /\ hostCounters[h].query.opened
                      /\ \E n \in 1..Len(hostCounters[h].query.paths) :
                            hostCounters[h].query.paths[n]
                              = AddItemArgs(ConfiguredCombos[i]).counterPath

\* A ParseConfig made two AddItem calls for each of two hosts, none of them
\* failed, and each host's list holds two counters.
C27_Witness ==
    /\ RanParseConfig
    /\ Cardinality(DOMAIN hostCounters) = 2
    /\ \A h \in DOMAIN hostCounters :
          /\ Cardinality(CombosOf(h)) = 2
          /\ Len(hostCounters[h].counters) = 2
          /\ hostCounters[h].query.openCalls = 1
    /\ \A i \in 1..Len(last.log) : last.log[i] = Nil

\* C28: across any sequence of Gather calls each opened host query is
\* closed at most once: no query of the host map that was opened has had
\* more than one Close call, also after a cleanQueries that stopped at a
\* Close error; and after a cleanQueries that returned no error the map
\* was empty, so that the queries ParseConfig then made have had no Close
\* call.
C28_ClosedAtMostOnce ==
    /\ \A h \in DOMAIN hostCounters :
          hostCounters[h].query.opened => hostCounters[h].query.closeCalls <= 1
    /\ AfterConfigurationBlock
       => \A h \in DOMAIN hostCounters : hostCounters[h].query.closeCalls = 0

====
